---- MODULE Spec2Model ----
(***************************************************************************)
(* Verification model of the availability-and-suggestion validation        *)
(* engine of hey-you-free:                                                 *)
(*   - calendar_demo.find_free_times        (free-slot finder)             *)
(*   - core.meeting_scheduler.validate_*    (suggestion validator)         *)
(*   - adapters.gemini_client.parse_gemini_response (extract/decode/check) *)
(* Each component is a pure function; each has its own specification       *)
(* (SpecFinder, SpecValidate, SpecParse) whose Init draws the inputs and   *)
(* whose actions run the code.                                             *)
(***************************************************************************)
EXTENDS Integers, Sequences, FiniteSets, TLC

VARIABLES
    \* ---- find_free_times (src/calendar_demo.py) ----
    phil_events,      \* first calendar: sequence of raw events
    chris_events,     \* second calendar: sequence of raw events
    duration_hours,   \* requested slot length in hours
    start_dt,         \* window start (seconds from day 0, 00:00:00 UTC)
    end_dt,           \* window end   (end_date 23:59:59)
    all_busy_times,   \* sorted list of <<busy_start, busy_end>>
    current_time,     \* sweep cursor
    free_times,       \* slots recorded so far
    ff_pc,            \* "idle" | "start" | "loop" | "done" | "raised"
    \* ---- validate_meeting_suggestions / validate_event_dictionary ----
    payload,          \* JSON value handed to validate_meeting_suggestions
    v_result,         \* its outcome
    event,            \* JSON value handed to validate_event_dictionary
    e_result,         \* its outcome
    v_pc,             \* "idle" | "ready" | "done"
    \* ---- parse_gemini_response (src/src/adapters/gemini_client.py) ----
    response_text,    \* the AI text, a sequence of symbols
    json_text,        \* extracted candidate
    suggestions,      \* decoded JSON value
    p_result,         \* value returned by parse_gemini_response
    p_pc,             \* "idle" | "extract" | "decode" | "validate" | "done"
    \* ---- add_event_links_to_suggestions (src/src/core/event_link_generator.py) ----
    el_given,         \* the suggestion list as the caller passed it
    el_suggestions,   \* the caller's suggestion objects as they are now
    el_user1,         \* user1_name
    el_user2,         \* user2_name
    el_base_url,      \* base_url of the deployment
    el_enhanced,      \* the returned list
    el_prev,          \* the previous call: users and returned list
    el_calls,         \* number of calls made
    el_pc,            \* "idle" | "called" | "returned"
    \* ---- OAuth state handling (src/src/adapters/oauth_service.py) ----
    oa_now,           \* utcnow(), in minutes
    state_storage,    \* in-memory dict: state -> expires_at
    oauth_states,     \* database table oauth_states: state_key -> expires_at
    oa_issued,        \* states returned by get_authorization_url -> expires_at
    oa_accepts,       \* per state, number of successful exchanges (capped)
    oa_consumed,      \* states that were exchanged or rejected as expired
    oa_state,         \* state argument of the last exchange
    oa_was_consumed,  \* whether that state was consumed before the call
    oa_result,        \* outcome of the last exchange
    oa_pc             \* "idle" | "run"

finder_vars == <<phil_events, chris_events, duration_hours, start_dt, end_dt,
                 all_busy_times, current_time, free_times, ff_pc>>
validate_vars == <<payload, v_result, event, e_result, v_pc>>
parse_vars == <<response_text, json_text, suggestions, p_result, p_pc>>
links_vars == <<el_given, el_suggestions, el_user1, el_user2, el_base_url,
                el_enhanced, el_prev, el_calls, el_pc>>
oauth_vars == <<oa_now, state_storage, oauth_states, oa_issued, oa_accepts,
                oa_consumed, oa_state, oa_was_consumed, oa_result, oa_pc>>
vars == <<finder_vars, validate_vars, parse_vars, links_vars, oauth_vars>>

(***************************************************************************)
(* Python's None                                                           *)
(***************************************************************************)
None == <<"None">>

(***************************************************************************)
(*                       FREE-SLOT FINDER                                  *)
(***************************************************************************)
SecondsPerHour == 3600
ConflictStepSeconds == 1800
SecondsPerDay == 86400

\* ---- bounds of the explored inputs ----
MaxPhilEvents == 1
MaxChrisEvents == 1

\* Instants (seconds from day 0 midnight) used for event boundaries:
\* 00:00, 09:00, 10:00, 10:15, 17:00 and 24:00.
EventInstants == {0, 9 * SecondsPerHour, 10 * SecondsPerHour,
                  10 * SecondsPerHour + 900,
                  17 * SecondsPerHour, 24 * SecondsPerHour}
Durations == {1, 3}

\* A raw time field of a calendar event ('start' or 'end' sub-dictionary):
\*   <<"dateTime", t>>  a parsable timestamp for instant t
\*   <<"date", d>>      an all-day date, day number d
\*   <<"absent">>       neither key present
\*   <<"garbage">>      a 'dateTime' string that fromisoformat rejects
TimedFields == {<<"dateTime", t>> : t \in EventInstants}
RawEvents ==
    [start : TimedFields, end : TimedFields]
    \cup { [start |-> <<"date", 0>>, end |-> <<"date", 1>>],
           [start |-> <<"absent">>, end |-> <<"dateTime", 10 * SecondsPerHour>>],
           [start |-> <<"dateTime", 9 * SecondsPerHour>>, end |-> <<"absent">>],
           [start |-> <<"garbage">>, end |-> <<"dateTime", 10 * SecondsPerHour>>],
           [start |-> <<"dateTime", 9 * SecondsPerHour>>, end |-> <<"garbage">>] }

SeqsUpTo(S, n) == UNION { [1..k -> S] : k \in 0..n }

\* datetime.fromisoformat on one field; "error" stands for ValueError
parse_field(f) ==
    CASE f[1] = "dateTime" -> [status |-> "ok", t |-> f[2]]
      [] f[1] = "date"     -> [status |-> "ok", t |-> f[2] * SecondsPerDay]
      [] f[1] = "absent"   -> [status |-> "none", t |-> 0]
      [] OTHER             -> [status |-> "error", t |-> 0]

\* parse_event_time: start first, then end; (None, None) when a key is absent
parse_event_time(ev) ==
    LET s == parse_field(ev.start)
        e == parse_field(ev.end)
    IN  IF s.status = "error" THEN [status |-> "error", start |-> 0, end |-> 0]
        ELSE IF s.status = "none" THEN [status |-> "none", start |-> 0, end |-> 0]
        ELSE IF e.status = "error" THEN [status |-> "error", start |-> 0, end |-> 0]
        ELSE IF e.status = "none" THEN [status |-> "none", start |-> 0, end |-> 0]
        ELSE [status |-> "ok", start |-> s.t, end |-> e.t]

\* the loop of lines 75-78: None when some event makes fromisoformat raise
RECURSIVE collect_busy(_)
collect_busy(events) ==
    IF events = <<>> THEN <<>>
    ELSE LET p == parse_event_time(Head(events))
             rest == collect_busy(Tail(events))
         IN  IF p.status = "ok" THEN <<<<p.start, p.end>>>> \o rest
             ELSE rest

any_parse_error(events) ==
    \E i \in 1..Len(events) : parse_event_time(events[i]).status = "error"

\* (mutant) an insertion that puts an interval before the ones that start
\* at the same instant
RECURSIVE insert_by_start_ties_first(_, _)
insert_by_start_ties_first(sorted, x) ==
    IF sorted = <<>> THEN <<x>>
    ELSE IF x[1] <= sorted[Len(sorted)][1]
         THEN insert_by_start_ties_first(SubSeq(sorted, 1, Len(sorted) - 1), x)
              \o <<sorted[Len(sorted)]>>
         ELSE sorted \o <<x>>

\* list.sort(key=lambda x: x[0]): stable, ascending by start
RECURSIVE insert_by_start(_, _)
insert_by_start(sorted, x) ==
    IF sorted = <<>> THEN <<x>>
    ELSE IF x[1] < sorted[Len(sorted)][1]
         THEN insert_by_start(SubSeq(sorted, 1, Len(sorted) - 1), x)
              \o <<sorted[Len(sorted)]>>
         ELSE sorted \o <<x>>

RECURSIVE sort_by_start(_)
sort_by_start(s) ==
    IF s = <<>> THEN <<>>
    ELSE insert_by_start(sort_by_start(SubSeq(s, 1, Len(s) - 1)), s[Len(s)])

\* (mutant) overlap test that looks at the cursor only, not at the slot's end
conflicts_with_cursor_only(t, hours, busy) ==
    t < busy[2] /\ t >= busy[1]

\* (mutant) overlap test that sees only a slot lying across the interval's start
conflicts_with_across_start(t, hours, busy) ==
    t < busy[1] /\ t + hours * SecondsPerHour > busy[1]

\* (mutant) overlap test that counts touching as overlapping
conflicts_with_touching(t, hours, busy) ==
    t <= busy[2] /\ t + hours * SecondsPerHour >= busy[1]

\* the overlap test of lines 91-92
conflicts_with(t, hours, busy) ==
    t < busy[2] /\ t + hours * SecondsPerHour > busy[1]

\* index of the interval at which the for loop breaks, 0 if it runs through
first_conflict(t, hours, busy_list) ==
    IF \E i \in 1..Len(busy_list) : conflicts_with(t, hours, busy_list[i])
    THEN CHOOSE i \in 1..Len(busy_list) :
            /\ conflicts_with(t, hours, busy_list[i])
            /\ \A j \in 1..(i - 1) : ~conflicts_with(t, hours, busy_list[j])
    ELSE 0

\* (mutant) the cursor resumes from the start of the conflicting interval
after_conflict_from_start(busy) == busy[1] + ConflictStepSeconds

\* lines 95 and 108: the cursor is set to busy_end, then moved on by 30 minutes
after_conflict(busy) == busy[2] + ConflictStepSeconds

\* line 100: the slot is kept only if it ends inside the window
fits_window(free_end, window_end) == free_end <= window_end

FinderIdle ==
    /\ phil_events = <<>> /\ chris_events = <<>> /\ duration_hours = 0
    /\ start_dt = 0 /\ end_dt = 0 /\ all_busy_times = <<>>
    /\ current_time = 0 /\ free_times = <<>> /\ ff_pc = "idle"

ValidateIdle ==
    /\ payload = None /\ v_result = None /\ event = None /\ e_result = None
    /\ v_pc = "idle"

ParseIdle ==
    /\ response_text = <<>> /\ json_text = <<>> /\ suggestions = None
    /\ p_result = None /\ p_pc = "idle"

\* no previous call of add_event_links_to_suggestions
NoCall == [user1 |-> "", user2 |-> "", enhanced |-> <<>>]

LinksIdle ==
    /\ el_given = <<>> /\ el_suggestions = <<>> /\ el_user1 = "" /\ el_user2 = ""
    /\ el_base_url = "" /\ el_enhanced = <<>> /\ el_prev = NoCall
    /\ el_calls = 0 /\ el_pc = "idle"

OAuthIdle ==
    /\ oa_now = 0 /\ state_storage = <<>> /\ oauth_states = <<>>
    /\ oa_issued = <<>> /\ oa_accepts = <<>> /\ oa_consumed = {}
    /\ oa_state = 0 /\ oa_was_consumed = FALSE /\ oa_result = "none"
    /\ oa_pc = "idle"

\* find_free_times is called with two calendars, a one-day window and a duration
InitFinder ==
    /\ phil_events \in SeqsUpTo(RawEvents, MaxPhilEvents)
    /\ chris_events \in SeqsUpTo(RawEvents, MaxChrisEvents)
    /\ duration_hours \in Durations
    /\ start_dt = 0
    /\ end_dt = SecondsPerDay - 1
    /\ all_busy_times = <<>>
    /\ current_time = 0
    /\ free_times = <<>>
    /\ ff_pc = "start"
    /\ ValidateIdle /\ ParseIdle /\ LinksIdle /\ OAuthIdle

\* lines 72-85: collect, sort, initialise the cursor
CollectBusy ==
    /\ ff_pc = "start"
    /\ IF any_parse_error(phil_events \o chris_events)
       THEN /\ ff_pc' = "raised"
            /\ UNCHANGED <<all_busy_times, current_time>>
       ELSE /\ all_busy_times' = sort_by_start(collect_busy(phil_events \o chris_events))
            /\ current_time' = start_dt
            /\ ff_pc' = "loop"
    /\ UNCHANGED <<phil_events, chris_events, duration_hours, start_dt, end_dt,
                   free_times, validate_vars, parse_vars, links_vars, oauth_vars>>

\* one iteration of the while loop, lines 87-108
SweepStep ==
    /\ ff_pc = "loop"
    /\ current_time < end_dt
    /\ LET i == first_conflict(current_time, duration_hours, all_busy_times)
       IN  IF i # 0
           THEN /\ current_time' = after_conflict(all_busy_times[i])
                /\ UNCHANGED free_times
           ELSE LET free_end == current_time + duration_hours * SecondsPerHour
                IN  /\ free_times' =
                          IF fits_window(free_end, end_dt)
                          THEN Append(free_times,
                                      [start |-> current_time, end |-> free_end,
                                       duration_hours |-> duration_hours])
                          ELSE free_times
                    /\ current_time' = current_time + SecondsPerHour
    /\ UNCHANGED <<phil_events, chris_events, duration_hours, start_dt, end_dt,
                   all_busy_times, ff_pc, validate_vars, parse_vars, links_vars, oauth_vars>>

\* line 110: the loop condition fails, free_times is returned
SweepReturn ==
    /\ ff_pc = "loop"
    /\ ~(current_time < end_dt)
    /\ ff_pc' = "done"
    /\ UNCHANGED <<phil_events, chris_events, duration_hours, start_dt, end_dt,
                   all_busy_times, current_time, free_times,
                   validate_vars, parse_vars, links_vars, oauth_vars>>

NextFinder == CollectBusy \/ SweepStep \/ SweepReturn

SpecFinder == InitFinder /\ [][NextFinder]_vars

\* find_free_times is one synchronous call: the interpreter keeps executing
\* its statements until it returns or raises
SpecFinderLive == InitFinder /\ [][NextFinder]_vars /\ WF_vars(NextFinder)

\* the busy intervals taken from either calendar (every event with both
\* timestamps), read off the raw inputs
BusyIntervals ==
    { <<parse_event_time(ev).start, parse_event_time(ev).end>> :
        ev \in { e \in {phil_events[i] : i \in 1..Len(phil_events)}
                       \cup {chris_events[i] : i \in 1..Len(chris_events)} :
                  parse_event_time(e).status = "ok" } }

\* C1: every slot recorded by find_free_times starts at or after the window
\* start, ends exactly duration_hours later and no later than the window end,
\* and overlaps no busy interval of either calendar
\* (never slot.start < I.end and slot.end > I.start).
C1_SlotsInsideWindowAndFree ==
    \A k \in 1..Len(free_times) :
        LET slot == free_times[k] IN
        /\ start_dt <= slot.start
        /\ slot.end = slot.start + duration_hours * SecondsPerHour
        /\ slot.end <= end_dt
        /\ \A I \in BusyIntervals : ~(slot.start < I[2] /\ slot.end > I[1])

\* a finished sweep that returned slots around a real busy interval which
\* made it reject the first probe
C1_Witness ==
    /\ ff_pc = "done"
    /\ Len(free_times) > 0
    /\ BusyIntervals # {}
    /\ free_times[1].start > start_dt

\* ---- the raw events as the caller sees them ----
AllEvents == phil_events \o chris_events
HasTimestamp(f) == f[1] \in {"dateTime", "date"}
InstantOf(f) == IF f[1] = "dateTime" THEN f[2] ELSE f[2] * SecondsPerDay
\* both start and end are present and can be read as timestamps
WellFormedEvent(ev) == HasTimestamp(ev.start) /\ HasTimestamp(ev.end)
IntervalOf(ev) == <<InstantOf(ev.start), InstantOf(ev.end)>>
Normalized == ff_pc \in {"loop", "done"}
BusySetOf(list) == {list[i] : i \in 1..Len(list)}

\* C14: for every pair of raw calendars find_free_times raises no error;
\* the busy list holds no interval of an event whose start or end is missing
\* or unparsable, and holds the interval of every well-formed event.
C14_NormalizationNeverFails ==
    /\ ff_pc # "raised"
    /\ Normalized =>
          /\ \A I \in BusySetOf(all_busy_times) :
                \E j \in 1..Len(AllEvents) :
                    WellFormedEvent(AllEvents[j]) /\ I = IntervalOf(AllEvents[j])
          /\ \A j \in 1..Len(AllEvents) :
                (/\ WellFormedEvent(AllEvents[j])
                 /\ IntervalOf(AllEvents[j])[1] <= IntervalOf(AllEvents[j])[2])
                => IntervalOf(AllEvents[j]) \in BusySetOf(all_busy_times)

\* C15: the busy list holds no interval whose start is later than its end
\* (such an event is dropped), and holds every zero-length interval.
C15_InvertedEventsDropped ==
    Normalized =>
        /\ \A I \in BusySetOf(all_busy_times) : I[1] <= I[2]
        /\ \A j \in 1..Len(AllEvents) :
              (/\ WellFormedEvent(AllEvents[j])
               /\ IntervalOf(AllEvents[j])[1] = IntervalOf(AllEvents[j])[2])
              => IntervalOf(AllEvents[j]) \in BusySetOf(all_busy_times)

\* the intervals of the well-formed events in input order: the first
\* calendar's events in their order, then the second calendar's
RECURSIVE IntervalsInInputOrder(_)
IntervalsInInputOrder(events) ==
    IF events = <<>> THEN <<>>
    ELSE (IF WellFormedEvent(Head(events)) THEN <<IntervalOf(Head(events))>> ELSE <<>>)
         \o IntervalsInInputOrder(Tail(events))
IndexPermutations(n) == {f \in [1..n -> 1..n] : \A i, j \in 1..n : i # j => f[i] # f[j]}
\* list is input rearranged by increasing (start, input position)
IsStableSortOf(list, input) ==
    /\ Len(list) = Len(input)
    /\ \E f \in IndexPermutations(Len(input)) :
          /\ \A i \in 1..Len(list) : list[i] = input[f[i]]
          /\ \A i, j \in 1..Len(list) :
                i < j => \/ input[f[i]][1] < input[f[j]][1]
                         \/ input[f[i]][1] = input[f[j]][1] /\ f[i] < f[j]

\* C16: the busy list is the input intervals sorted ascending by start,
\* intervals with equal start keeping their input order (first calendar,
\* then second calendar), and the interval at which the sweep stops a probe
\* is the conflicting one that is least in (start, input position).
C16_StableSortByStart ==
    Normalized =>
        /\ IsStableSortOf(all_busy_times, IntervalsInInputOrder(AllEvents))
        /\ \A i \in 1..Len(all_busy_times) :
              conflicts_with(current_time, duration_hours, all_busy_times[i])
              => first_conflict(current_time, duration_hours, all_busy_times) <= i

\* two intervals with the same start and different ends, the first
\* calendar's one placed first, and a probe that conflicts with both
C16_Witness ==
    /\ ff_pc = "loop"
    /\ Len(phil_events) >= 1 /\ Len(chris_events) >= 1
    /\ Len(all_busy_times) >= 2
    /\ all_busy_times[1][1] = all_busy_times[2][1]
    /\ all_busy_times[1][2] > all_busy_times[2][2]
    /\ all_busy_times[1] = IntervalOf(phil_events[1])
    /\ conflicts_with(current_time, duration_hours, all_busy_times[1])
    /\ conflicts_with(current_time, duration_hours, all_busy_times[2])

\* C17: in the sweep the cursor strictly increases on every loop iteration
\* (also when the conflicting interval is zero-length or ends before
\* cursor + 30 minutes), and a sweep that was started returns: the loop
\* exits after finitely many iterations with the list of slots.
C17_SweepTerminates ==
    /\ [][(ff_pc = "loop" /\ ff_pc' = "loop") => current_time' > current_time]_vars
    /\ (ff_pc = "loop") ~> (ff_pc = "done" /\ ~(current_time < end_dt))

\* a finished sweep in which a probe was stopped by a zero-length interval
\* (10:00-10:00, probe 08:00-11:00) and resumed 30 minutes after it
C17_Witness ==
    /\ ff_pc = "done"
    /\ all_busy_times = << <<10 * SecondsPerHour, 10 * SecondsPerHour>> >>
    /\ duration_hours = 3
    /\ \E k \in 1..Len(free_times) :
          free_times[k].start = 10 * SecondsPerHour + ConflictStepSeconds

Returned1hSlots(phil, chris) ==
    /\ ff_pc = "done" /\ duration_hours = 1
    /\ phil_events = phil /\ chris_events = chris
IsHourSlot(slot, h) ==
    /\ slot.start = start_dt + h * SecondsPerHour
    /\ slot.end = start_dt + (h + 1) * SecondsPerHour

\* C18: with both calendars empty, a one-day window and duration 1 h,
\* find_free_times returns exactly 24 slots, the k-th starting k-1 hours
\* after the window start, the last one ending exactly at the window end.
C18_EmptyCalendars24Slots ==
    Returned1hSlots(<<>>, <<>>) =>
        /\ Len(free_times) = 24
        /\ \A k \in 1..Len(free_times) : IsHourSlot(free_times[k], k - 1)
        /\ free_times[Len(free_times)].end = end_dt

WorkdayEvent == [start |-> <<"dateTime", 9 * SecondsPerHour>>,
                 end |-> <<"dateTime", 17 * SecondsPerHour>>]

\* C19 as stated: person A busy 09:00-17:00, person B without events,
\* 1-hour slots over that one day: the result is the empty list.
C19_BusyDayNoSlots_AsStated ==
    Returned1hSlots(<<WorkdayEvent>>, <<>>) => free_times = <<>>

\* C19 (amended): in that scenario the result is not empty: its first nine
\* slots are the hourly slots 00:00-01:00 to 08:00-09:00, every further
\* slot starts at or after 17:00, and no slot overlaps 09:00-17:00.
C19_BusyDaySlotsOutsideWork ==
    Returned1hSlots(<<WorkdayEvent>>, <<>>) =>
        /\ Len(free_times) >= 9
        /\ \A k \in 1..9 : IsHourSlot(free_times[k], k - 1)
        /\ \A k \in 10..Len(free_times) :
              free_times[k].start >= start_dt + 17 * SecondsPerHour
        /\ \A k \in 1..Len(free_times) :
              ~(/\ free_times[k].start < start_dt + 17 * SecondsPerHour
                /\ free_times[k].end > start_dt + 9 * SecondsPerHour)

\* the busy-day call has returned, with slots before and after the work day
C19_Witness ==
    /\ Returned1hSlots(<<WorkdayEvent>>, <<>>)
    /\ Len(free_times) > 9

Later(a, b) == IF a >= b THEN a ELSE b
\* the probe (t, t + hours) overlaps the interval I
Overlaps(t, hours, I) == t < I[2] /\ t + hours * SecondsPerHour > I[1]
ConflictingAt(t, hours, list) ==
    {i \in 1..Len(list) : Overlaps(t, hours, list[i])}
FirstOf(S) == CHOOSE i \in S : \A j \in S : i <= j

\* C25: in every iteration of the sweep, if the probe at the cursor t
\* conflicts with an interval, I being the first such one in the busy list,
\* no slot is recorded and the cursor becomes max(t + 30 min, I.end);
\* otherwise the slot (t, t + duration) is recorded if it ends inside the
\* window and the cursor becomes t + 1 h.
C25_ConflictStep ==
    [][(ff_pc = "loop" /\ current_time < end_dt) =>
         LET C == ConflictingAt(current_time, duration_hours, all_busy_times) IN
         IF C # {}
         THEN /\ free_times' = free_times
              /\ current_time' =
                    Later(current_time + ConflictStepSeconds,
                          all_busy_times[FirstOf(C)][2])
         ELSE /\ current_time' = current_time + SecondsPerHour
              /\ free_times' =
                    IF current_time + duration_hours * SecondsPerHour <= end_dt
                    THEN Append(free_times,
                                [start |-> current_time,
                                 end |-> current_time + duration_hours * SecondsPerHour,
                                 duration_hours |-> duration_hours])
                    ELSE free_times]_vars

\* a slot starting at t is feasible: inside the window and overlapping no
\* busy interval of either calendar
Feasible(t) ==
    /\ start_dt <= t /\ t + duration_hours * SecondsPerHour <= end_dt
    /\ \A I \in BusyIntervals : ~Overlaps(t, duration_hours, I)
\* if some instant is feasible, so is the window start or the end of a
\* busy interval (slide the slot to the left until it touches something)
EarliestCandidates == {start_dt} \cup {I[2] : I \in BusyIntervals}

\* C27: if some slot is feasible, find_free_times returns a non-empty list.
C27_EmptyMeansInfeasible ==
    (ff_pc = "done" /\ \E t \in EarliestCandidates : Feasible(t))
    => free_times # <<>>

\* ---- pre-coalescing: overlapping or adjacent intervals merged ----
RECURSIVE MergeInto(_, _)
MergeInto(merged, rest) ==
    IF rest = <<>> THEN merged
    ELSE LET x == Head(rest)
             n == Len(merged)
         IN  IF n > 0 /\ x[1] <= merged[n][2]
             THEN MergeInto([merged EXCEPT ![n] = <<merged[n][1], Later(merged[n][2], x[2])>>],
                            Tail(rest))
             ELSE MergeInto(Append(merged, x), Tail(rest))
\* list is sorted by start
Coalesced(list) == MergeInto(<<>>, list)

\* the sweep of find_free_times run from cursor t over a given busy list
RECURSIVE SweepOver(_, _, _)
SweepOver(t, list, slots) ==
    IF ~(t < end_dt) THEN slots
    ELSE LET C == ConflictingAt(t, duration_hours, list) IN
         IF C # {}
         THEN SweepOver(list[FirstOf(C)][2] + ConflictStepSeconds, list, slots)
         ELSE SweepOver(t + SecondsPerHour, list,
                        IF t + duration_hours * SecondsPerHour <= end_dt
                        THEN Append(slots,
                                    [start |-> t,
                                     end |-> t + duration_hours * SecondsPerHour,
                                     duration_hours |-> duration_hours])
                        ELSE slots)

\* I and J end up in the same merged interval
MergedTogether(list, I, J) ==
    \E k \in 1..Len(Coalesced(list)) :
        LET M == Coalesced(list)[k] IN
        /\ M[1] <= I[1] /\ I[1] <= M[2]
        /\ M[1] <= J[1] /\ J[1] <= M[2]
\* intervals merged together end at the same instant or more than the
\* conflict step apart
MergedEndsApart(list) ==
    \A i, j \in 1..Len(list) :
        MergedTogether(list, list[i], list[j]) =>
            \/ list[i][2] = list[j][2]
            \/ list[i][2] - list[j][2] > ConflictStepSeconds
            \/ list[j][2] - list[i][2] > ConflictStepSeconds

\* C26 as stated: the sweep over the coalesced busy list returns exactly
\* the list of slots that find_free_times returns over the raw busy list.
C26_CoalescingPreservesOutput_AsStated ==
    ff_pc = "done" =>
        free_times = SweepOver(start_dt, Coalesced(all_busy_times), <<>>)

\* C26 (amended): the two lists are the same whenever the intervals that
\* are merged together end at the same instant or more than 30 minutes
\* apart.
C26_CoalescingPreservesOutput ==
    (ff_pc = "done" /\ MergedEndsApart(all_busy_times)) =>
        free_times = SweepOver(start_dt, Coalesced(all_busy_times), <<>>)

\* two overlapping intervals with different ends were merged into one and
\* the sweep returned slots after them
C26_Witness ==
    /\ ff_pc = "done"
    /\ Len(all_busy_times) = 2 /\ Len(Coalesced(all_busy_times)) = 1
    /\ all_busy_times[1][1] < all_busy_times[2][1]
    /\ all_busy_times[2][1] < all_busy_times[1][2]
    /\ all_busy_times[1][2] < all_busy_times[2][2]
    /\ MergedEndsApart(all_busy_times)
    /\ free_times # <<>>
    /\ free_times[1].start > all_busy_times[1][2]

(***************************************************************************)
(*                     SUGGESTION VALIDATOR                                *)
(* JSON values are tagged tuples, so that values of different JSON types   *)
(* can be compared: <<"str", s>>, <<"num", n>> (n counts tenths: 5 is      *)
(* 0.5), <<"bool", b>>, <<"null">>, <<"list", seq>>, <<"dict", f>>.       *)
(***************************************************************************)
JStr(s) == <<"str", s>>
JNum(n) == <<"num", n>>
JBool(b) == <<"bool", b>>
JNull == <<"null">>
JList(seq) == <<"list", seq>>
JDict(f) == <<"dict", f>>
NumberScale == 10

\* the characters of the strings whose characters the code looks at
\* (strptime input, the operand of a substring test)
StrChars ==
       "date" :> <<"d", "a", "t", "e">>
    @@ "time" :> <<"t", "i", "m", "e">>
    @@ "duration" :> <<"d", "u", "r", "a", "t", "i", "o", "n">>
    @@ "reasoning" :> <<"r", "e", "a", "s", "o", "n", "i", "n", "g">>
    @@ "phil_energy" :> <<"p", "h", "i", "l", "_", "e", "n", "e", "r", "g", "y">>
    @@ "chris_energy" :> <<"c", "h", "r", "i", "s", "_", "e", "n", "e", "r", "g", "y">>
    @@ "meeting_type" :> <<"m", "e", "e", "t", "i", "n", "g", "_", "t", "y", "p", "e">>
    @@ "confidence" :> <<"c", "o", "n", "f", "i", "d", "e", "n", "c", "e">>
    @@ "hello" :> <<"h", "e", "l", "l", "o">>
    @@ "see date" :> <<"s", "e", "e", " ", "d", "a", "t", "e">>
    @@ "2025-01-20" :> <<"2", "0", "2", "5", "-", "0", "1", "-", "2", "0">>
    @@ "2024-02-29" :> <<"2", "0", "2", "4", "-", "0", "2", "-", "2", "9">>
    @@ "20-01-2025" :> <<"2", "0", "-", "0", "1", "-", "2", "0", "2", "5">>
    @@ "2025-1-5" :> <<"2", "0", "2", "5", "-", "1", "-", "5">>
    @@ "2025-02-30" :> <<"2", "0", "2", "5", "-", "0", "2", "-", "3", "0">>
    @@ "2025-13-01" :> <<"2", "0", "2", "5", "-", "1", "3", "-", "0", "1">>
    @@ "2025-01-20x" :> <<"2", "0", "2", "5", "-", "0", "1", "-", "2", "0", "x">>
    @@ "14:30" :> <<"1", "4", ":", "3", "0">>
    @@ "14:00" :> <<"1", "4", ":", "0", "0">>
    @@ "9:5" :> <<"9", ":", "5">>
    @@ "24:00" :> <<"2", "4", ":", "0", "0">>
    @@ "14:60" :> <<"1", "4", ":", "6", "0">>
    @@ "2pm" :> <<"2", "p", "m">>
    @@ "" :> <<>>

Digits == {"0", "1", "2", "3", "4", "5", "6", "7", "8", "9"}
DigitVal == "0" :> 0 @@ "1" :> 1 @@ "2" :> 2 @@ "3" :> 3 @@ "4" :> 4 @@
            "5" :> 5 @@ "6" :> 6 @@ "7" :> 7 @@ "8" :> 8 @@ "9" :> 9

\* Python truthiness of a JSON value (the operand of: not event[field])
truthy(v) ==
    CASE v[1] = "str"  -> v[2] # ""
      [] v[1] = "num"  -> v[2] # 0
      [] v[1] = "bool" -> v[2]
      [] v[1] = "null" -> FALSE
      [] v[1] = "list" -> v[2] # <<>>
      [] v[1] = "dict" -> DOMAIN v[2] # {}

\* str.__contains__: sub occurs in s (both character sequences)
is_substring(sub, s) ==
    \E i \in 0..(Len(s) - Len(sub)) :
        \A k \in 1..Len(sub) : s[i + k] = sub[k]

\* the test (field in event) for any JSON value: TypeError on int, float, bool, None
has_key(ev, field) ==
    CASE ev[1] = "dict" -> IF field \in DOMAIN ev[2] THEN "yes" ELSE "no"
      [] ev[1] = "str"  -> IF is_substring(StrChars[field], StrChars[ev[2]])
                           THEN "yes" ELSE "no"
      [] ev[1] = "list" -> IF \E i \in 1..Len(ev[2]) : ev[2][i] = JStr(field)
                           THEN "yes" ELSE "no"
      [] OTHER          -> "TypeError"

\* (field in event) followed by event[field]: subscripting a str or a list
\* with a str key raises TypeError
lookup(ev, field) ==
    LET k == has_key(ev, field) IN
    IF k = "TypeError" THEN "TypeError"
    ELSE IF k = "no" THEN "absent"
    ELSE IF ev[1] = "dict" THEN "present"
    ELSE "TypeError"

\* ---- datetime.strptime ----
is_leap(y) == (y % 4 = 0 /\ y % 100 # 0) \/ y % 400 = 0
days_in_month(y, m) ==
    IF m = 2 THEN (IF is_leap(y) THEN 29 ELSE 28)
    ELSE IF m \in {4, 6, 9, 11} THEN 30 ELSE 31

all_digits(cs) == \A i \in 1..Len(cs) : cs[i] \in Digits
RECURSIVE num_val(_)
num_val(cs) ==
    IF cs = <<>> THEN 0
    ELSE 10 * num_val(SubSeq(cs, 1, Len(cs) - 1)) + DigitVal[cs[Len(cs)]]

\* %m is 1[0-2]|0[1-9]|[1-9]
month_token(cs) ==
    /\ Len(cs) \in {1, 2} /\ all_digits(cs)
    /\ num_val(cs) \in 1..12
\* %d is 3[01]|[12]\d|0[1-9]|[1-9]| [1-9]
day_token(cs) ==
    \/ /\ Len(cs) \in {1, 2} /\ all_digits(cs) /\ num_val(cs) \in 1..31
    \/ /\ Len(cs) = 2 /\ cs[1] = " " /\ cs[2] \in Digits \ {"0"}
day_val(cs) == IF cs[1] = " " THEN DigitVal[cs[2]] ELSE num_val(cs)
\* %H is 2[0-3]|[0-1]\d|\d
hour_token(cs) ==
    /\ Len(cs) \in {1, 2} /\ all_digits(cs) /\ num_val(cs) \in 0..23
\* %M is [0-5]\d|\d
minute_token(cs) ==
    /\ Len(cs) \in {1, 2} /\ all_digits(cs) /\ num_val(cs) \in 0..59

\* the strict form YYYY-MM-DD: four digits, two zero-padded digits twice, a
\* real calendar date
strict_date(cs) ==
    /\ Len(cs) = 10 /\ cs[5] = "-" /\ cs[8] = "-"
    /\ all_digits(SubSeq(cs, 1, 4)) /\ all_digits(SubSeq(cs, 6, 7))
    /\ all_digits(SubSeq(cs, 9, 10))
    /\ num_val(SubSeq(cs, 1, 4)) >= 1
    /\ num_val(SubSeq(cs, 6, 7)) \in 1..12
    /\ num_val(SubSeq(cs, 9, 10)) \in
          1..days_in_month(num_val(SubSeq(cs, 1, 4)), num_val(SubSeq(cs, 6, 7)))

\* datetime.strptime(s, "%Y-%m-%d") succeeds: \d\d\d\d-%m-%d matches the
\* whole string and the fields form a date
strptime_date(cs) ==
    /\ Len(cs) >= 8
    /\ all_digits(SubSeq(cs, 1, 4)) /\ cs[5] = "-"
    /\ num_val(SubSeq(cs, 1, 4)) >= 1
    /\ \E n \in {1, 2} :
          /\ Len(cs) > 6 + n
          /\ cs[6 + n] = "-"
          /\ month_token(SubSeq(cs, 6, 5 + n))
          /\ day_token(SubSeq(cs, 7 + n, Len(cs)))
          /\ day_val(SubSeq(cs, 7 + n, Len(cs))) <=
                days_in_month(num_val(SubSeq(cs, 1, 4)),
                              num_val(SubSeq(cs, 6, 5 + n)))

\* the strict form HH:MM: two zero-padded digits twice, 00-23 and 00-59
strict_time(cs) ==
    /\ Len(cs) = 5 /\ cs[3] = ":"
    /\ all_digits(SubSeq(cs, 1, 2)) /\ all_digits(SubSeq(cs, 4, 5))
    /\ num_val(SubSeq(cs, 1, 2)) \in 0..23
    /\ num_val(SubSeq(cs, 4, 5)) \in 0..59

\* datetime.strptime(s, "%H:%M") succeeds
strptime_time(cs) ==
    \E n \in {1, 2} :
        /\ Len(cs) > n + 1
        /\ cs[n + 1] = ":"
        /\ hour_token(SubSeq(cs, 1, n))
        /\ minute_token(SubSeq(cs, n + 2, Len(cs)))

\* ---- validate_event_dictionary ----
required_fields == <<"date", "time", "duration", "reasoning",
                     "phil_energy", "chris_energy", "meeting_type">>
valid_energy == {JStr("High"), JStr("Medium"), JStr("Low")}
valid_energy_repr == "['High', 'Medium', 'Low']"
valid_meeting_types == {JStr("Coffee"), JStr("Casual lunch"),
                        JStr("Evening drinks"), JStr("Activity")}
valid_meeting_types_repr == "['Coffee', 'Casual lunch', 'Evening drinks', 'Activity']"

\* an error message is the sequence of the pieces of its f-string
MissingMsg(field) == <<"Missing required field: " \o field>>
EmptyMsg(field) == <<"Empty required field: " \o field>>
InvalidEnergyMsg(field, v) ==
    <<"Invalid " \o field \o ": ", v, ". Must be one of " \o valid_energy_repr>>
InvalidMeetingTypeMsg(v) ==
    <<"Invalid meeting_type: ", v, ". Must be one of " \o valid_meeting_types_repr>>
InvalidDateMsg(v) == <<"Invalid date format: ", v, ". Must be YYYY-MM-DD">>
InvalidTimeMsg(v) == <<"Invalid time format: ", v, ". Must be HH:MM">>
InvalidConfidenceMsg(v) == <<"Invalid confidence: ", v, ". Must be 0.0-1.0">>

\* the progress of one call: the errors list, or an uncaught TypeError
Acc(errors) == [raised |-> FALSE, errors |-> errors]
RaisedAcc == [raised |-> TRUE, errors |-> <<>>]

\* lines 167-171
RECURSIVE check_required(_, _, _)
check_required(ev, i, errors) ==
    IF i > Len(required_fields) THEN Acc(errors)
    ELSE LET field == required_fields[i]
             l == lookup(ev, field)
         IN  IF l = "TypeError" THEN RaisedAcc
             ELSE IF l = "absent"
                  THEN check_required(ev, i + 1, Append(errors, MissingMsg(field)))
             ELSE IF ~truthy(ev[2][field]) \/ ev[2][field] = JStr("")
                  THEN check_required(ev, i + 1, Append(errors, EmptyMsg(field)))
             ELSE check_required(ev, i + 1, errors)

\* lines 175-176 and 177-178
check_energy(ev, field, acc) ==
    IF acc.raised THEN acc
    ELSE LET l == lookup(ev, field) IN
         IF l = "TypeError" THEN RaisedAcc
         ELSE IF l = "present" /\ ev[2][field] \notin valid_energy
              THEN Acc(Append(acc.errors, InvalidEnergyMsg(field, ev[2][field])))
         ELSE acc

\* lines 181-183
check_meeting_type(ev, acc) ==
    IF acc.raised THEN acc
    ELSE LET l == lookup(ev, "meeting_type") IN
         IF l = "TypeError" THEN RaisedAcc
         ELSE IF l = "present" /\ ev[2]["meeting_type"] \notin valid_meeting_types
              THEN Acc(Append(acc.errors, InvalidMeetingTypeMsg(ev[2]["meeting_type"])))
         ELSE acc

\* lines 186-190: strptime raises TypeError on a value that is not a str
check_date(ev, acc) ==
    IF acc.raised THEN acc
    ELSE LET l == lookup(ev, "date") IN
         IF l = "TypeError" THEN RaisedAcc
         ELSE IF l = "present" /\ truthy(ev[2]["date"])
              THEN IF ev[2]["date"][1] # "str" THEN RaisedAcc
                   ELSE IF strptime_date(StrChars[ev[2]["date"][2]]) THEN acc
                   ELSE Acc(Append(acc.errors, InvalidDateMsg(ev[2]["date"])))
         ELSE acc

\* lines 193-197
check_time(ev, acc) ==
    IF acc.raised THEN acc
    ELSE LET l == lookup(ev, "time") IN
         IF l = "TypeError" THEN RaisedAcc
         ELSE IF l = "present" /\ truthy(ev[2]["time"])
              THEN IF ev[2]["time"][1] # "str" THEN RaisedAcc
                   ELSE IF strptime_time(StrChars[ev[2]["time"][2]]) THEN acc
                   ELSE Acc(Append(acc.errors, InvalidTimeMsg(ev[2]["time"])))
         ELSE acc

\* isinstance(v, (int, float)) and 0.0 <= v <= 1.0; bool is a subclass of int
confidence_ok(v) ==
    \/ v[1] = "num" /\ 0 <= v[2] /\ v[2] <= NumberScale
    \/ v[1] = "bool"

\* lines 200-202
check_confidence(ev, acc) ==
    IF acc.raised THEN acc
    ELSE LET l == lookup(ev, "confidence") IN
         IF l = "TypeError" THEN RaisedAcc
         ELSE IF l = "present" /\ ev[2]["confidence"] # JNull
                 /\ ~confidence_ok(ev[2]["confidence"])
              THEN Acc(Append(acc.errors, InvalidConfidenceMsg(ev[2]["confidence"])))
         ELSE acc

\* what a call gives back: a (is_valid, errors) pair, or an exception
Returned(is_valid, errors) ==
    [raised |-> FALSE, is_valid |-> is_valid, errors |-> errors]
RaisedTypeError == [raised |-> TRUE, is_valid |-> FALSE, errors |-> <<>>]

validate_event_dictionary(ev) ==
    LET acc == check_confidence(ev,
               check_time(ev,
               check_date(ev,
               check_meeting_type(ev,
               check_energy(ev, "chris_energy",
               check_energy(ev, "phil_energy",
               check_required(ev, 1, <<>>)))))))
    IN  IF acc.raised THEN RaisedTypeError
        ELSE Returned(Len(acc.errors) = 0, acc.errors)

\* ---- validate_meeting_suggestions ----
\* line 231: f"Suggestion {i+1}: {error}"
PrefixMsg(i, error) == <<"Suggestion ", i, ": ">> \o error
PrefixAll(i, errs) == [k \in 1..Len(errs) |-> PrefixMsg(i, errs[k])]

\* lines 227-231
RECURSIVE collect_suggestion_errors(_, _, _)
collect_suggestion_errors(list, i, errors) ==
    IF i > Len(list) THEN Acc(errors)
    ELSE LET r == validate_event_dictionary(list[i]) IN
         IF r.raised THEN RaisedAcc
         ELSE collect_suggestion_errors(list, i + 1,
                 IF ~r.is_valid THEN errors \o PrefixAll(i, r.errors) ELSE errors)

\* (mutant) the empty list is rejected without a message
NoSuggestionsResult_silent == Returned(FALSE, <<>>)

\* (mutant) a payload that is not an object is reported as a missing key
NotADictResult_as_missing_key == Returned(FALSE, << <<"Missing 'suggestions' key">> >>)

NotADictResult == Returned(FALSE, << <<"Response must be a dictionary">> >>)
MissingKeyResult == Returned(FALSE, << <<"Missing 'suggestions' key">> >>)
NotAListResult == Returned(FALSE, << <<"'suggestions' must be a list">> >>)
NoSuggestionsResult == Returned(FALSE, << <<"No suggestions provided">> >>)

validate_meeting_suggestions(p) ==
    IF p[1] # "dict" THEN NotADictResult
    ELSE IF "suggestions" \notin DOMAIN p[2] THEN MissingKeyResult
    ELSE IF p[2]["suggestions"][1] # "list" THEN NotAListResult
    ELSE IF Len(p[2]["suggestions"][2]) = 0 THEN NoSuggestionsResult
    ELSE LET acc == collect_suggestion_errors(p[2]["suggestions"][2], 1, <<>>)
         IN  IF acc.raised THEN RaisedTypeError
             ELSE Returned(Len(acc.errors) = 0, acc.errors)


(***************************************************************************)
(* Inputs of the validator: the payloads a caller (a test, or the decoded   *)
(* AI response) can hand to validate_meeting_suggestions.                   *)
(***************************************************************************)
MaxPerturb == 2       \* fields changed, over the whole list, w.r.t. a valid one
MaxSuggestions == 2   \* length of the suggestions list

\* the legacy flat shape (tests/test_meeting_scheduler.py) and the nested
\* shape (tests/test_end_to_end.py) of a well-formed suggestion
BaseFlat ==
    [date |-> JStr("2025-01-20"), time |-> JStr("14:30"),
     duration |-> JStr("1 hour"), reasoning |-> JStr("ok"),
     phil_energy |-> JStr("High"), chris_energy |-> JStr("Medium"),
     meeting_type |-> JStr("Coffee")]
NestedEnergies == JDict([phil |-> JStr("High"), chris |-> JStr("Medium")])
BaseNested ==
    [date |-> JStr("2025-01-20"), time |-> JStr("14:30"),
     duration |-> JStr("1.5 hours"), reasoning |-> JStr("ok"),
     user_energies |-> NestedEnergies,
     meeting_type |-> JStr("Coffee")]

Absent == <<"absent">>
\* the changes applied to a well-formed suggestion: <<field, new value>>
\* (Absent removes the key), or <<"*", v>>: the list element is v, not an object
EditSeq ==
    << <<"date", Absent>>,
       <<"date", JStr("")>>,
       <<"date", JStr("20-01-2025")>>,
       <<"date", JStr("2025-1-5")>>,
       <<"date", JStr("2025-02-30")>>,
       <<"date", JNum(50)>>,
       <<"time", Absent>>,
       <<"time", JStr("")>>,
       <<"time", JStr("9:5")>>,
       <<"time", JStr("24:00")>>,
       <<"time", JStr("14:60")>>,
       <<"duration", Absent>>,
       <<"duration", JStr("")>>,
       <<"duration", JNum(0)>>,
       <<"reasoning", Absent>>,
       <<"reasoning", JStr("")>>,
       <<"phil_energy", Absent>>,
       <<"phil_energy", JStr("")>>,
       <<"phil_energy", JStr("Super High")>>,
       <<"phil_energy", JStr("Low")>>,
       <<"phil_energy", JNum(50)>>,
       <<"chris_energy", Absent>>,
       <<"chris_energy", JStr("Super High")>>,
       <<"meeting_type", Absent>>,
       <<"meeting_type", JStr("")>>,
       <<"meeting_type", JStr("virtual coffee chat")>>,
       <<"confidence", JNum(5)>>,
       <<"confidence", JNum(15)>>,
       <<"confidence", JStr("high")>>,
       <<"confidence", JNull>>,
       <<"confidence", JNum(0)>>,
       <<"confidence", JNum(10)>>,
       <<"confidence", JNum(-1)>>,
       <<"confidence", JBool(TRUE)>>,
       <<"user_energies", Absent>>,
       <<"user_energies", NestedEnergies>>,
       <<"user_energies", JDict([phil |-> JStr("Super High"), chris |-> JStr("High")])>>,
       <<"*", JNum(50)>>,
       <<"*", JNull>>,
       <<"*", JStr("hello")>>,
       <<"*", JStr("see date")>>,
       <<"*", JList(<<>>)>>,
       <<"*", JList(<<JStr("date")>>)>> >>

apply_edit(el, e) ==
    IF e[1] = "*" THEN e[2]
    ELSE IF el[1] # "dict" THEN el
    ELSE IF e[2] = Absent
         THEN JDict([k \in DOMAIN el[2] \ {e[1]} |-> el[2][k]])
         ELSE JDict([k \in DOMAIN el[2] \cup {e[1]} |-> IF k = e[1] THEN e[2] ELSE el[2][k]])

\* a change is numbered c: it applies edit ((c-1) % Len(EditSeq)) + 1 to the
\* list element ((c-1) \div Len(EditSeq)) + 1
edit_position(c) == ((c - 1) \div Len(EditSeq)) + 1
edit_of(c) == EditSeq[((c - 1) % Len(EditSeq)) + 1]

RECURSIVE apply_changes(_, _, _, _)
apply_changes(el, i, changes, j) ==
    IF j > Len(changes) THEN el
    ELSE apply_changes(IF edit_position(changes[j]) = i
                       THEN apply_edit(el, edit_of(changes[j])) ELSE el,
                       i, changes, j + 1)

build_payload(bases, changes) ==
    JDict([suggestions |->
             JList([i \in 1..Len(bases) |-> apply_changes(JDict(bases[i]), i, changes, 1)])])

TopLevelOddities ==
    {JNum(50), JNull, JStr("hello"), JList(<<>>), JList(<<JDict(BaseFlat)>>),
     JDict(<<>>), JDict([metadata |-> JStr("x")]),
     JDict([suggestions |-> JStr("none")]), JDict([suggestions |-> JNull]),
     JDict([suggestions |-> JDict(BaseFlat)]),
     JDict([suggestions |-> JList(<<>>)]),
     JDict([suggestions |-> JList(<<>>), metadata |-> JStr("x")])}

\* payload is one of the malformed top-level shapes, or a list of up to
\* MaxSuggestions suggestions that differ from well-formed ones in up to
\* MaxPerturb places
IsPayload(p) ==
    \/ p \in TopLevelOddities
    \/ \E n \in 1..MaxSuggestions :
       \E bases \in [1..n -> {BaseFlat, BaseNested}] :
       \E k \in 0..MaxPerturb :
       \E changes \in [1..k -> 1..(n * Len(EditSeq))] :
          /\ \A j \in 1..(k - 1) : changes[j] < changes[j + 1]
          /\ p = build_payload(bases, changes)

InitValidate ==
    /\ IsPayload(payload)
    /\ v_result = None /\ event = None /\ e_result = None
    /\ v_pc = "ready"
    /\ FinderIdle /\ ParseIdle /\ LinksIdle /\ OAuthIdle

\* a call of validate_meeting_suggestions(payload)
ValidateSuggestions ==
    /\ v_pc = "ready"
    /\ v_result' = validate_meeting_suggestions(payload)
    /\ v_pc' = "validated"
    /\ UNCHANGED <<payload, event, e_result, finder_vars, parse_vars,
                   links_vars, oauth_vars>>

has_suggestion_list(p) ==
    /\ p[1] = "dict"
    /\ "suggestions" \in DOMAIN p[2]
    /\ p[2]["suggestions"][1] = "list"
suggestion_list(p) == p[2]["suggestions"][2]

\* a call of validate_event_dictionary on one suggestion of the payload
ValidateEvent ==
    /\ v_pc = "ready"
    /\ has_suggestion_list(payload)
    /\ \E i \in 1..Len(suggestion_list(payload)) :
          /\ event' = suggestion_list(payload)[i]
          /\ e_result' = validate_event_dictionary(suggestion_list(payload)[i])
    /\ v_pc' = "event_validated"
    /\ UNCHANGED <<payload, v_result, finder_vars, parse_vars,
                   links_vars, oauth_vars>>

NextValidate == ValidateSuggestions \/ ValidateEvent

SpecValidate == InitValidate /\ [][NextValidate]_vars

(***************************************************************************)
(*                    Claims about the validator                           *)
(***************************************************************************)
Validated == v_pc = "validated"
EventValidated == v_pc = "event_validated"
EventIsDict == EventValidated /\ event[1] = "dict"
ErrorSet(r) == {r.errors[i] : i \in 1..Len(r.errors)}
\* the call returned a list containing msg
EventYields(msg) == ~e_result.raised /\ msg \in ErrorSet(e_result)
EventOmits(msg) == e_result.raised \/ msg \notin ErrorSet(e_result)

\* C3: validate_meeting_suggestions returns a (is_valid, errors) result on
\* every JSON-shaped payload and never raises.
C3_ValidateNeverRaises ==
    Validated => ~v_result.raised

\* C4: whenever validate_meeting_suggestions or validate_event_dictionary
\* returns, is_valid is true exactly when errors is the empty list.
C4_ValidIffNoErrors ==
    /\ (Validated /\ ~v_result.raised) =>
          (v_result.is_valid <=> v_result.errors = <<>>)
    /\ (EventValidated /\ ~e_result.raised) =>
          (e_result.is_valid <=> e_result.errors = <<>>)

\* a rejected payload whose errors come from a per-suggestion check, and a
\* rejected payload whose error is a top-level one
C4_Witness ==
    /\ Validated /\ ~v_result.raised /\ ~v_result.is_valid
    /\ has_suggestion_list(payload) /\ Len(suggestion_list(payload)) = 2
    /\ Len(v_result.errors) >= 2
    /\ v_result.errors[1][1] = "Suggestion "

\* the prefixed errors of every suggestion of the list, in index order
RECURSIVE AllPrefixedErrors(_, _)
AllPrefixedErrors(list, i) ==
    IF i > Len(list) THEN <<>>
    ELSE PrefixAll(i, validate_event_dictionary(list[i]).errors)
         \o AllPrefixedErrors(list, i + 1)

\* C5: for a payload with a non-empty suggestions list, validation yields
\* errors, and they are the concatenation in index order of the violations
\* of every suggestion, each prefixed "Suggestion <i>: "; nothing is
\* suppressed by a violation elsewhere.
C5_ErrorsAreFullConcatenation ==
    (Validated /\ has_suggestion_list(payload)
       /\ Len(suggestion_list(payload)) > 0) =>
        /\ ~v_result.raised
        /\ v_result.errors = AllPrefixedErrors(suggestion_list(payload), 1)

OneError(text) == [raised |-> FALSE, is_valid |-> FALSE, errors |-> << <<text>> >>]
HasSuggestionsKey(p) == p[1] = "dict" /\ "suggestions" \in DOMAIN p[2]

\* C6 as stated: a payload without a 'suggestions' key, with a 'suggestions'
\* that is not a list, or with an empty list, is rejected with exactly the
\* one message "Missing 'suggestions' key", "'suggestions' must be a list",
\* "No suggestions provided" respectively.
C6_TopLevelShape_AsStated ==
    Validated =>
        /\ ~HasSuggestionsKey(payload) =>
              v_result = OneError("Missing 'suggestions' key")
        /\ (HasSuggestionsKey(payload) /\ payload[2]["suggestions"][1] # "list") =>
              v_result = OneError("'suggestions' must be a list")
        /\ (has_suggestion_list(payload) /\ suggestion_list(payload) = <<>>) =>
              v_result = OneError("No suggestions provided")

\* C6 (amended): as stated for a payload that is an object; a payload that is
\* not an object is rejected with the one message
\* "Response must be a dictionary".
C6_TopLevelShape ==
    Validated =>
        /\ payload[1] # "dict" =>
              v_result = OneError("Response must be a dictionary")
        /\ (payload[1] = "dict" /\ ~HasSuggestionsKey(payload)) =>
              v_result = OneError("Missing 'suggestions' key")
        /\ (HasSuggestionsKey(payload) /\ payload[2]["suggestions"][1] # "list") =>
              v_result = OneError("'suggestions' must be a list")
        /\ (has_suggestion_list(payload) /\ suggestion_list(payload) = <<>>) =>
              v_result = OneError("No suggestions provided")

\* a payload that is not an object has been rejected
C6_Witness ==
    /\ Validated /\ payload[1] = "list"
    /\ v_result.errors = << <<"Response must be a dictionary">> >>

\* the energy level a suggestion gives for a participant, in the flat shape
\* (phil_energy) or in the nested one (user_energies.phil); Absent if neither
EnergyOf(ev, who) ==
    IF (who \o "_energy") \in DOMAIN ev[2] THEN ev[2][who \o "_energy"]
    ELSE IF "user_energies" \in DOMAIN ev[2]
            /\ ev[2]["user_energies"][1] = "dict"
            /\ who \in DOMAIN ev[2]["user_energies"][2]
         THEN ev[2]["user_energies"][2][who]
    ELSE Absent
Participants == {"phil", "chris"}
PlainRequiredFields == {"date", "time", "duration", "reasoning", "meeting_type"}

RequiredRule(value, name) ==
    /\ value = Absent => EventYields(MissingMsg(name))
    /\ (value # Absent /\ ~truthy(value)) => EventYields(EmptyMsg(name))
    /\ (value # Absent /\ truthy(value)) =>
          EventOmits(MissingMsg(name)) /\ EventOmits(EmptyMsg(name))

\* C7: for each of date, time, duration, reasoning, meeting_type and for the
\* energy level of every participant: absent yields "Missing required
\* field: X", present but empty yields "Empty required field: X", present
\* and non-empty yields neither.
C7_RequiredFieldRule ==
    EventIsDict =>
        /\ \A X \in PlainRequiredFields :
              RequiredRule(IF X \in DOMAIN event[2] THEN event[2][X] ELSE Absent, X)
        /\ \A who \in Participants :
              RequiredRule(EnergyOf(event, who), who \o "_energy")

\* C8: an energy value outside High, Medium, Low makes the suggestion
\* invalid with an error "Invalid energy level for <participant>"; a value
\* among them adds no energy error.
C8_EnergyRule ==
    EventIsDict =>
        \A who \in Participants :
            LET v == EnergyOf(event, who) IN
            /\ (v # Absent /\ v \notin valid_energy) =>
                  /\ ~e_result.raised /\ ~e_result.is_valid
                  /\ \E m \in ErrorSet(e_result) :
                        m[1] = "Invalid energy level for " \o who
            /\ (v \in valid_energy /\ ~e_result.raised) =>
                  \A m \in ErrorSet(e_result) :
                      /\ m[1] # "Invalid energy level for " \o who
                      /\ m[1] # "Invalid " \o who \o "_energy: "

\* C9: a suggestion that is valid with the meeting type "Coffee" is valid
\* with any other non-empty meeting_type string.
C9_MeetingTypeIsFree ==
    (/\ EventIsDict
     /\ "meeting_type" \in DOMAIN event[2]
     /\ event[2]["meeting_type"][1] = "str"
     /\ event[2]["meeting_type"][2] # ""
     /\ LET r == validate_event_dictionary(
                    apply_edit(event, <<"meeting_type", JStr("Coffee")>>))
        IN  ~r.raised /\ r.is_valid)
    => (~e_result.raised /\ e_result.is_valid)

IsStrictDate(v) == v[1] = "str" /\ strict_date(StrChars[v[2]])
IsStrictTime(v) == v[1] = "str" /\ strict_time(StrChars[v[2]])

\* C10: a non-empty date passes only in the strict form YYYY-MM-DD, a
\* non-empty time only in the strict form HH:MM; any other value yields an
\* "Invalid date format" / "Invalid time format" error.
C10_StrictDateAndTime ==
    EventIsDict =>
        /\ ("date" \in DOMAIN event[2] /\ truthy(event[2]["date"])) =>
              IF IsStrictDate(event[2]["date"])
              THEN EventOmits(InvalidDateMsg(event[2]["date"]))
              ELSE EventYields(InvalidDateMsg(event[2]["date"]))
        /\ ("time" \in DOMAIN event[2] /\ truthy(event[2]["time"])) =>
              IF IsStrictTime(event[2]["time"])
              THEN EventOmits(InvalidTimeMsg(event[2]["time"]))
              ELSE EventYields(InvalidTimeMsg(event[2]["time"]))

IsNumberInUnitRange(v) == v[1] = "num" /\ 0 <= v[2] /\ v[2] <= NumberScale
NoConfidenceError ==
    \A m \in ErrorSet(e_result) : m[1] # "Invalid confidence: "

\* C11: whenever validate_event_dictionary returns for a suggestion with a
\* confidence field, a value that is a number in [0.0, 1.0] (0 and 1
\* included) adds no confidence error, any other value (not a number, or a
\* number outside the range) makes the suggestion invalid with a confidence
\* error; a suggestion without the field gets no confidence error.
C11_ConfidenceRule ==
    (EventIsDict /\ ~e_result.raised) =>
        IF "confidence" \in DOMAIN event[2]
        THEN IF IsNumberInUnitRange(event[2]["confidence"])
             THEN NoConfidenceError
             ELSE /\ ~e_result.is_valid
                  /\ EventYields(InvalidConfidenceMsg(event[2]["confidence"]))
        ELSE NoConfidenceError

NonEmptyStr(v) == v[1] = "str" /\ v[2] # ""
\* a suggestion with well-formed plain fields and a nested energies map
\* that gives every participant a level among High, Medium, Low
WellFormedNested(ev) ==
    /\ ev[1] = "dict"
    /\ DOMAIN ev[2] = PlainRequiredFields \cup {"user_energies"}
    /\ IsStrictDate(ev[2]["date"]) /\ IsStrictTime(ev[2]["time"])
    /\ NonEmptyStr(ev[2]["duration"]) /\ NonEmptyStr(ev[2]["reasoning"])
    /\ NonEmptyStr(ev[2]["meeting_type"])
    /\ ev[2]["user_energies"][1] = "dict"
    /\ DOMAIN ev[2]["user_energies"][2] = Participants
    /\ \A who \in Participants : ev[2]["user_energies"][2][who] \in valid_energy

\* C12: a payload with one suggestion that has a well-formed date, time,
\* duration, reasoning and meeting_type and a nested energies map with
\* levels among High, Medium, Low validates with is_valid = true and
\* errors = [].
C12_RoundTripNested ==
    (/\ Validated /\ has_suggestion_list(payload)
     /\ Len(suggestion_list(payload)) = 1
     /\ WellFormedNested(suggestion_list(payload)[1]))
    => v_result = Returned(TRUE, <<>>)

FlatEnergyKeys == {"phil_energy", "chris_energy"}
IsFlatShape(ev) ==
    /\ ev[1] = "dict"
    /\ "user_energies" \notin DOMAIN ev[2]
    /\ DOMAIN ev[2] \cap FlatEnergyKeys # {}
\* the same suggestion with its flat energy fields moved into the nested map
ToNested(ev) ==
    LET given == {who \in Participants : (who \o "_energy") \in DOMAIN ev[2]}
        nested == JDict([who \in given |-> ev[2][who \o "_energy"]])
    IN  JDict([k \in (DOMAIN ev[2] \ FlatEnergyKeys) \cup {"user_energies"} |->
                 IF k = "user_energies" THEN nested ELSE ev[2][k]])

\* C13: a suggestion given with flat energy fields (phil_energy,
\* chris_energy) and the same suggestion given with the equivalent nested
\* map (user_energies) get the same outcome from validate_event_dictionary:
\* the same is_valid and the same set of violations.
C13_ShapesValidateIdentically ==
    (EventValidated /\ IsFlatShape(event)) =>
        LET n == validate_event_dictionary(ToNested(event)) IN
        /\ n.raised = e_result.raised
        /\ n.is_valid = e_result.is_valid
        /\ ErrorSet(n) = ErrorSet(e_result)

(***************************************************************************)
(*                 RESPONSE EXTRACTION AND DECODING                        *)
(* The response text is a sequence of symbols: <<"c", ch>> is the          *)
(* character ch, <<"lit", v>> is the text of one JSON scalar literal (a    *)
(* quoted string, a number, true, false or null) that contains no back-    *)
(* tick and no brace.                                                      *)
(***************************************************************************)
Ch(c) == <<"c", c>>
Lit(v) == <<"lit", v>>
Chars(str_chars) == [i \in 1..Len(str_chars) |-> Ch(str_chars[i])]
\* the backtick character (the module syntax has no string for it)
Backtick == "BACKTICK"
OpenFence == Chars(<<Backtick, Backtick, Backtick, "j", "s", "o", "n">>)
Fence == Chars(<<Backtick, Backtick, Backtick>>)
Whitespace == {Ch(" "), Ch("\n")}

\* pat occurs in text at 0-based offset i
match_at(text, pat, i) ==
    /\ i >= 0 /\ i + Len(pat) <= Len(text)
    /\ \A k \in 1..Len(pat) : text[i + k] = pat[k]
\* the test: pat in text
contains(text, pat) == \E i \in 0..Len(text) : match_at(text, pat, i)
\* str.find(pat, from): lowest offset >= from, -1 if there is none
find(text, pat, from) ==
    IF \E i \in from..Len(text) : match_at(text, pat, i)
    THEN CHOOSE i \in from..Len(text) :
            /\ match_at(text, pat, i)
            /\ \A j \in from..(i - 1) : ~match_at(text, pat, j)
    ELSE -1
\* str.rfind(pat): highest offset, -1 if there is none
rfind(text, pat) ==
    IF \E i \in 0..Len(text) : match_at(text, pat, i)
    THEN CHOOSE i \in 0..Len(text) :
            /\ match_at(text, pat, i)
            /\ \A j \in (i + 1)..Len(text) : ~match_at(text, pat, j)
    ELSE -1
\* text[a:b] with Python's treatment of negative and oversized bounds
slice_bound(text, x) ==
    IF x < 0 THEN (IF x + Len(text) < 0 THEN 0 ELSE x + Len(text))
    ELSE IF x > Len(text) THEN Len(text) ELSE x
slice(text, a, b) == SubSeq(text, slice_bound(text, a) + 1, slice_bound(text, b))
\* str.strip()
RECURSIVE lstrip(_)
lstrip(text) ==
    IF text # <<>> /\ Head(text) \in Whitespace THEN lstrip(Tail(text)) ELSE text
RECURSIVE rstrip(_)
rstrip(text) ==
    IF text # <<>> /\ text[Len(text)] \in Whitespace
    THEN rstrip(SubSeq(text, 1, Len(text) - 1)) ELSE text
strip(text) == rstrip(lstrip(text))

\* (mutant) the brace rule is tried before the fence rule
extract_json_text_brace_first(text) ==
    IF contains(text, <<Ch("{")>>) /\ contains(text, <<Ch("}")>>)
    THEN LET json_start == find(text, <<Ch("{")>>, 0)
             json_end == rfind(text, <<Ch("}")>>) + 1
         IN  slice(text, json_start, json_end)
    ELSE IF contains(text, OpenFence)
    THEN LET json_start == find(text, OpenFence, 0) + 7
             json_end == find(text, Fence, json_start)
         IN  strip(slice(text, json_start, json_end))
    ELSE text

\* lines 80-89 of parse_gemini_response
extract_json_text(text) ==
    IF contains(text, OpenFence)
    THEN LET json_start == find(text, OpenFence, 0) + 7
             json_end == find(text, Fence, json_start)
         IN  strip(slice(text, json_start, json_end))
    ELSE IF contains(text, <<Ch("{")>>) /\ contains(text, <<Ch("}")>>)
    THEN LET json_start == find(text, <<Ch("{")>>, 0)
             json_end == rfind(text, <<Ch("}")>>) + 1
         IN  slice(text, json_start, json_end)
    ELSE text

\* ---- json.loads ----
Eof == <<"eof">>
tok(toks, p) == IF p \in 1..Len(toks) THEN toks[p] ELSE Eof
RECURSIVE skip_ws(_, _)
skip_ws(toks, p) == IF tok(toks, p) \in Whitespace THEN skip_ws(toks, p + 1) ELSE p
ParseFail == [ok |-> FALSE, val |-> None, next |-> 0]
ParseOk(v, n) == [ok |-> TRUE, val |-> v, next |-> n]

RECURSIVE parse_value(_, _)
RECURSIVE parse_members(_, _, _)
RECURSIVE parse_elements(_, _, _)

\* value := literal | object | array
parse_value(toks, p) ==
    LET t == tok(toks, p) IN
    IF t[1] = "lit" THEN ParseOk(t[2], p + 1)
    ELSE IF t = Ch("{")
         THEN IF tok(toks, skip_ws(toks, p + 1)) = Ch("}")
              THEN ParseOk(JDict(<<>>), skip_ws(toks, p + 1) + 1)
              ELSE parse_members(toks, skip_ws(toks, p + 1), <<>>)
    ELSE IF t = Ch("[")
         THEN IF tok(toks, skip_ws(toks, p + 1)) = Ch("]")
              THEN ParseOk(JList(<<>>), skip_ws(toks, p + 1) + 1)
              ELSE parse_elements(toks, skip_ws(toks, p + 1), <<>>)
    ELSE ParseFail

\* "key" : value ( , "key" : value )* }    a repeated key keeps the last value
parse_members(toks, p, f) ==
    LET k == tok(toks, p)
        colon == skip_ws(toks, p + 1)
    IN  IF ~(k[1] = "lit" /\ k[2][1] = "str") THEN ParseFail
        ELSE IF tok(toks, colon) # Ch(":") THEN ParseFail
        ELSE LET v == parse_value(toks, skip_ws(toks, colon + 1)) IN
             IF ~v.ok THEN ParseFail
             ELSE LET g == (k[2][2] :> v.val) @@ f
                      r == skip_ws(toks, v.next)
                  IN  IF tok(toks, r) = Ch(",")
                      THEN parse_members(toks, skip_ws(toks, r + 1), g)
                      ELSE IF tok(toks, r) = Ch("}") THEN ParseOk(JDict(g), r + 1)
                      ELSE ParseFail

\* value ( , value )* ]
parse_elements(toks, p, acc) ==
    LET v == parse_value(toks, p) IN
    IF ~v.ok THEN ParseFail
    ELSE LET r == skip_ws(toks, v.next) IN
         IF tok(toks, r) = Ch(",")
         THEN parse_elements(toks, skip_ws(toks, r + 1), Append(acc, v.val))
         ELSE IF tok(toks, r) = Ch("]") THEN ParseOk(JList(Append(acc, v.val)), r + 1)
         ELSE ParseFail

\* (mutant) a decoder that stops after the first complete value
json_loads_first_value(toks) == parse_value(toks, skip_ws(toks, 1))

\* json.loads(text): ok is FALSE for JSONDecodeError (also on trailing data)
json_loads(toks) ==
    LET v == parse_value(toks, skip_ws(toks, 1)) IN
    IF v.ok /\ skip_ws(toks, v.next) > Len(toks) THEN v ELSE ParseFail

\* (mutant) a response is returned as soon as validation did not raise
checked_payload_unchecked(value, r) ==
    IF r.raised THEN None ELSE value

\* lines 95-105 and 112-116: the decoded value is returned only if
\* validate_meeting_suggestions returned is_valid; an exception gives None
checked_payload(value, r) ==
    IF r.raised THEN None
    ELSE IF ~r.is_valid THEN None
    ELSE value

\* ---- the texts an AI response can be: a JSON document, as json.dumps ----
\* ---- writes it, alone or wrapped in prose and fences, or cut short    ----
KeyOrder == <<"suggestions", "metadata", "date", "time", "duration", "reasoning",
              "phil_energy", "chris_energy", "user_energies", "phil", "chris",
              "meeting_type", "confidence">>
RECURSIVE dumps(_)
RECURSIVE dumps_members(_, _, _)
RECURSIVE dumps_elements(_, _)
dumps(v) ==
    CASE v[1] = "dict" -> <<Ch("{")>> \o dumps_members(v[2], 1, TRUE) \o <<Ch("}")>>
      [] v[1] = "list" -> <<Ch("[")>> \o dumps_elements(v[2], 1) \o <<Ch("]")>>
      [] OTHER         -> <<Lit(v)>>
dumps_members(f, i, first) ==
    IF i > Len(KeyOrder) THEN <<>>
    ELSE IF KeyOrder[i] \notin DOMAIN f THEN dumps_members(f, i + 1, first)
    ELSE (IF first THEN <<>> ELSE <<Ch(","), Ch(" ")>>)
         \o <<Lit(JStr(KeyOrder[i])), Ch(":"), Ch(" ")>> \o dumps(f[KeyOrder[i]])
         \o dumps_members(f, i + 1, FALSE)
dumps_elements(l, i) ==
    IF i > Len(l) THEN <<>>
    ELSE (IF i = 1 THEN <<>> ELSE <<Ch(","), Ch(" ")>>)
         \o dumps(l[i]) \o dumps_elements(l, i + 1)

Prose == <<Ch("x")>>
Newline == <<Ch("\n")>>
TextsAround(body) ==
    { body,
      Prose \o <<Ch(" ")>> \o body \o <<Ch(" ")>> \o Prose,
      Prose \o Newline \o OpenFence \o Newline \o body \o Newline \o Fence
            \o Newline \o Prose,
      OpenFence \o body \o Fence,
      OpenFence \o Newline \o body,
      <<Ch("{")>> \o Prose \o OpenFence \o body \o Fence \o <<Ch("}")>>,
      Fence \o Newline \o body \o Newline \o Fence,
      SubSeq(body, 1, Len(body) - 1),
      body \o <<Ch("}")>>,
      <<Ch("}")>> \o Prose \o body,
      OpenFence \o body \o Fence \o Prose \o Fence,
      Prose \o OpenFence \o body \o Fence \o OpenFence \o Prose \o Fence }
FixedTexts ==
    { <<>>, Prose, Prose \o <<Ch(" ")>> \o Prose,
      <<Ch("}"), Ch("x"), Ch("{")>>,
      <<Ch("{"), Ch("}")>>,
      OpenFence, OpenFence \o Fence }

MaxTextSuggestions == 2
MaxTextPerturb == 1

InitParse ==
    /\ \/ response_text \in FixedTexts
       \/ \E p \in TopLevelOddities : response_text \in TextsAround(dumps(p))
       \/ \E n \in 1..MaxTextSuggestions :
          \E bases \in [1..n -> {BaseFlat, BaseNested}] :
          \E k \in 0..MaxTextPerturb :
          \E changes \in [1..k -> 1..(n * Len(EditSeq))] :
             /\ \A j \in 1..(k - 1) : changes[j] < changes[j + 1]
             /\ response_text \in TextsAround(dumps(build_payload(bases, changes)))
    /\ json_text = <<>> /\ suggestions = None /\ p_result = None
    /\ p_pc = "extract"
    /\ FinderIdle /\ ValidateIdle /\ LinksIdle /\ OAuthIdle

\* lines 79-89: locate the candidate
Extract ==
    /\ p_pc = "extract"
    /\ json_text' = extract_json_text(response_text)
    /\ p_pc' = "decode"
    /\ UNCHANGED <<response_text, suggestions, p_result, finder_vars, validate_vars,
                   links_vars, oauth_vars>>

\* line 92, and lines 107-110 when json.loads raises JSONDecodeError
Decode ==
    /\ p_pc = "decode"
    /\ LET d == json_loads(json_text) IN
       IF d.ok
       THEN /\ suggestions' = d.val
            /\ p_pc' = "validate"
            /\ UNCHANGED p_result
       ELSE /\ p_result' = None
            /\ p_pc' = "done"
            /\ UNCHANGED suggestions
    /\ UNCHANGED <<response_text, json_text, finder_vars, validate_vars,
                   links_vars, oauth_vars>>

\* lines 95-105, and lines 112-116 when the validator raises
CheckAndReturn ==
    /\ p_pc = "validate"
    /\ p_result' = checked_payload(suggestions, validate_meeting_suggestions(suggestions))
    /\ p_pc' = "done"
    /\ UNCHANGED <<response_text, json_text, suggestions, finder_vars, validate_vars,
                   links_vars, oauth_vars>>

NextParse == Extract \/ Decode \/ CheckAndReturn

SpecParse == InitParse /\ [][NextParse]_vars

\* C2: parse_gemini_response returns a payload only when the extracted text
\* decodes as JSON and validate_meeting_suggestions accepts the decoded
\* value; as soon as validation reports an error for any suggestion the
\* result is None, also when other suggestions are valid.
C2_InvalidNeverPromoted ==
    p_pc = "done" =>
        /\ p_result # None =>
              /\ json_loads(json_text).ok
              /\ p_result = json_loads(json_text).val
              /\ has_suggestion_list(p_result)
              /\ suggestion_list(p_result) # <<>>
              /\ \A i \in 1..Len(suggestion_list(p_result)) :
                    LET r == validate_event_dictionary(suggestion_list(p_result)[i])
                    IN  ~r.raised /\ r.is_valid /\ r.errors = <<>>
        /\ (/\ suggestions # None
            /\ has_suggestion_list(suggestions)
            /\ \E i \in 1..Len(suggestion_list(suggestions)) :
                  LET r == validate_event_dictionary(suggestion_list(suggestions)[i])
                  IN  r.raised \/ r.errors # <<>>)
           => p_result = None

\* a decoded response with one valid and one invalid suggestion was rejected
\* as a whole
C2_Witness ==
    /\ p_pc = "done" /\ p_result = None
    /\ suggestions # None /\ has_suggestion_list(suggestions)
    /\ Len(suggestion_list(suggestions)) = 2
    /\ validate_event_dictionary(suggestion_list(suggestions)[1]).is_valid
    /\ ~validate_event_dictionary(suggestion_list(suggestions)[2]).is_valid
    /\ json_text # response_text

\* ---- the extraction rules, read off the text by positions (1-based) ----
OccursAt(text, pat, i) ==
    /\ i >= 1 /\ i + Len(pat) - 1 <= Len(text)
    /\ \A k \in 1..Len(pat) : text[i + k - 1] = pat[k]
Occurs(text, pat) == \E i \in 1..Len(text) : OccursAt(text, pat, i)
FirstAtOrAfter(text, pat, lo) ==
    CHOOSE i \in lo..Len(text) :
        OccursAt(text, pat, i) /\ \A j \in lo..(i - 1) : ~OccursAt(text, pat, j)
LastOf(text, pat) ==
    CHOOSE i \in 1..Len(text) :
        OccursAt(text, pat, i) /\ \A j \in (i + 1)..Len(text) : ~OccursAt(text, pat, j)
\* position of the first character after the first opening fence
AfterOpenFence(text) == FirstAtOrAfter(text, OpenFence, 1) + Len(OpenFence)
HasClosingFence(text) ==
    \E i \in AfterOpenFence(text)..Len(text) : OccursAt(text, Fence, i)
FencedBlock(text) ==
    SubSeq(text, AfterOpenFence(text),
           FirstAtOrAfter(text, Fence, AfterOpenFence(text)) - 1)
Trimmed(text) ==
    LET inner == {i \in 1..Len(text) : text[i] \notin Whitespace} IN
    IF inner = {} THEN <<>>
    ELSE SubSeq(text, CHOOSE i \in inner : \A j \in inner : i <= j,
                      CHOOSE i \in inner : \A j \in inner : i >= j)
\* c is a run of consecutive characters of text that starts at lo or later
LiesWithin(c, text, lo) ==
    \E a \in lo..(Len(text) + 1) : c = SubSeq(text, a, a + Len(c) - 1)
BraceSpan(text) ==
    SubSeq(text, FirstAtOrAfter(text, <<Ch("{")>>, 1), LastOf(text, <<Ch("}")>>))
Extracted == p_pc # "idle" /\ p_pc # "extract"

\* C20: if the text contains the opening fence, the candidate is the
\* (whitespace-trimmed) text between the first opening fence and the next
\* fence after it, it contains no fence marker and nothing from before the
\* opening fence, whatever braces occur outside the block; a text without
\* the opening fence that has both braces gives the span from the first
\* opening to the last closing brace; any other text is the candidate itself.
C20_FenceRuleFirst ==
    Extracted =>
        IF Occurs(response_text, OpenFence)
        THEN /\ ~Occurs(json_text, Fence)
             /\ LiesWithin(json_text, response_text, AfterOpenFence(response_text))
             /\ HasClosingFence(response_text) =>
                   json_text = Trimmed(FencedBlock(response_text))
        ELSE IF Occurs(response_text, <<Ch("{")>>) /\ Occurs(response_text, <<Ch("}")>>)
        THEN json_text = BraceSpan(response_text)
        ELSE json_text = response_text

\* a fenced block was extracted from a text that has a brace before the
\* opening fence and a brace after the closing fence
C20_Witness ==
    /\ Extracted
    /\ Occurs(response_text, OpenFence) /\ HasClosingFence(response_text)
    /\ response_text[1] = Ch("{")
    /\ response_text[Len(response_text)] = Ch("}")
    /\ json_text # <<>>
    /\ json_text = Trimmed(FencedBlock(response_text))
    /\ json_text # BraceSpan(response_text)

BraceRuleApplies(text) ==
    /\ ~Occurs(text, OpenFence)
    /\ Occurs(text, <<Ch("{")>>) /\ Occurs(text, <<Ch("}")>>)

\* C21: for a text without the opening fence that contains both braces the
\* candidate begins with the first opening brace of the text and ends with
\* its last closing brace, also when every closing brace precedes the first
\* opening brace.
C21_BraceRule ==
    (Extracted /\ BraceRuleApplies(response_text)) =>
        /\ json_text # <<>>
        /\ json_text[1] = Ch("{")
        /\ json_text[Len(json_text)] = Ch("}")
        /\ (FirstAtOrAfter(response_text, <<Ch("{")>>, 1)
               < LastOf(response_text, <<Ch("}")>>))
           => json_text = BraceSpan(response_text)

CountOf(text, sym) == Cardinality({i \in 1..Len(text) : text[i] = sym})
\* a text that cannot be a JSON document: empty, holding prose, or with
\* unbalanced braces or brackets
NotJson(text) ==
    \/ Trimmed(text) = <<>>
    \/ Occurs(text, Prose)
    \/ CountOf(text, Ch("{")) # CountOf(text, Ch("}"))
    \/ CountOf(text, Ch("[")) # CountOf(text, Ch("]"))

\* C22: when the extracted candidate is not valid JSON (empty, prose,
\* truncated or with trailing data), parse_gemini_response returns None and
\* no decoded value, partial or not, is kept.
C22_DecodeErrorGivesNone ==
    (p_pc \in {"validate", "done"} /\ NotJson(json_text)) =>
        /\ p_pc = "done"
        /\ p_result = None
        /\ suggestions = None

\* None was returned for a truncated JSON object, and for nothing else
\* than its failing to decode
C22_Witness ==
    /\ p_pc = "done" /\ p_result = None /\ suggestions = None
    /\ Len(json_text) > 3
    /\ json_text[1] = Ch("{")
    /\ ~Occurs(json_text, Prose)
    /\ CountOf(json_text, Ch("{")) > CountOf(json_text, Ch("}"))

UnclosedFence(text) == Occurs(text, OpenFence) /\ ~HasClosingFence(text)
RestAfterOpenFence(text) == SubSeq(text, AfterOpenFence(text), Len(text))

\* C28: when the text has the opening fence and no fence after it, the
\* candidate is the whole rest of the text after the opening fence, trimmed
\* of surrounding whitespace, no character lost; a complete JSON object
\* that follows an unclosed fence therefore decodes.
C28_UnclosedFenceKeepsPayload ==
    /\ (Extracted /\ UnclosedFence(response_text)) =>
          json_text = Trimmed(RestAfterOpenFence(response_text))
    /\ (p_pc = "done" /\ UnclosedFence(response_text)
         /\ json_loads(Trimmed(RestAfterOpenFence(response_text))).ok)
        => suggestions = json_loads(Trimmed(RestAfterOpenFence(response_text))).val

(***************************************************************************)
(*                       EVENT LINK GENERATOR                              *)
(*  src/src/core/event_link_generator.py                                   *)
(***************************************************************************)
\* ---- bounds of the explored inputs ----
MaxLinkSuggestions == 2
MaxLinkCalls == 2

SuggestionDates == {"2025-01-20", "2025-01-21"}
SuggestionTimes == {"14:00", "18:30"}
SuggestionTypes == {"Coffee", "Dinner"}
UserNames == {"phil", "chris"}
BaseUrls == {"", "https://app.example"}

\* a suggestion dict as it leaves the validator
LinkSuggestions ==
    [date : SuggestionDates, time : SuggestionTimes, meeting_type : SuggestionTypes]

\* hashlib.md5(content.encode()).hexdigest()[:8] on the contents that the
\* explored inputs produce (line 15-16)
md5_hexdigest8(content) ==
    CASE content = "2025-01-20_14:00_phil_phil" -> "5ddf72e9"
        [] content = "2025-01-20_14:00_phil_chris" -> "dd35753c"
        [] content = "2025-01-20_14:00_chris_phil" -> "9630d108"
        [] content = "2025-01-20_14:00_chris_chris" -> "b0c48af4"
        [] content = "2025-01-20_18:30_phil_phil" -> "c69d9131"
        [] content = "2025-01-20_18:30_phil_chris" -> "bb48dd7e"
        [] content = "2025-01-20_18:30_chris_phil" -> "6cb9e4f1"
        [] content = "2025-01-20_18:30_chris_chris" -> "ab37c52b"
        [] content = "2025-01-21_14:00_phil_phil" -> "f972f76d"
        [] content = "2025-01-21_14:00_phil_chris" -> "884df299"
        [] content = "2025-01-21_14:00_chris_phil" -> "31f75491"
        [] content = "2025-01-21_14:00_chris_chris" -> "5bdd389c"
        [] content = "2025-01-21_18:30_phil_phil" -> "d32cee11"
        [] content = "2025-01-21_18:30_phil_chris" -> "92f01a9d"
        [] content = "2025-01-21_18:30_chris_phil" -> "6ffcfd9b"
        [] content = "2025-01-21_18:30_chris_chris" -> "358bc93f"

\* lines 11-16
generate_suggestion_id(date, time, user1, user2) ==
    LET content == date \o "_" \o time \o "_" \o user1 \o "_" \o user2
    IN  "suggestion_" \o md5_hexdigest8(content)

\* lines 19-21
generate_event_creation_link(suggestion_id, base_url) ==
    base_url \o "/calendar/events/create-from-suggestion/" \o suggestion_id

\* d[k] = v on a dict
set_item(d, k, v) == [x \in DOMAIN d \cup {k} |-> IF x = k THEN v ELSE d[x]]

\* (mutant) the id is taken from the meeting type
enhance_by_type(suggestion, user1, user2, base_url) ==
    LET suggestion_id == "suggestion_" \o suggestion.meeting_type
        enhanced == set_item(set_item(suggestion, "event_id", suggestion_id),
                             "event_link",
                             generate_event_creation_link(suggestion_id, base_url))
    IN  [input |-> suggestion, output |-> enhanced]

\* (mutant) no copy: the keys are written into the caller's dict
enhance_in_place(suggestion, user1, user2, base_url) ==
    LET suggestion_id == generate_suggestion_id(suggestion.date, suggestion.time,
                                                user1, user2)
        enhanced == set_item(set_item(suggestion, "event_id", suggestion_id),
                             "event_link",
                             generate_event_creation_link(suggestion_id, base_url))
    IN  [input |-> enhanced, output |-> enhanced]

\* one iteration of the loop, lines 32-47: the copy receives the two keys,
\* the caller's dict stays as it was
enhance(suggestion, user1, user2, base_url) ==
    LET suggestion_id == generate_suggestion_id(suggestion.date, suggestion.time,
                                                user1, user2)
        enhanced == set_item(set_item(suggestion, "event_id", suggestion_id),
                             "event_link",
                             generate_event_creation_link(suggestion_id, base_url))
    IN  [input |-> suggestion, output |-> enhanced]

\* lines 24-49: per index, the caller's dict afterwards and the appended copy
add_event_links_to_suggestions(suggs, user1, user2, base_url) ==
    [i \in 1..Len(suggs) |-> enhance(suggs[i], user1, user2, base_url)]

\* a deployment has one base_url; a request names two users and carries the
\* validated suggestions
InitLinks ==
    /\ el_given \in SeqsUpTo(LinkSuggestions, MaxLinkSuggestions)
    /\ el_suggestions = el_given
    /\ el_user1 \in UserNames /\ el_user2 \in UserNames
    /\ el_base_url \in BaseUrls
    /\ el_enhanced = <<>> /\ el_prev = NoCall
    /\ el_calls = 1
    /\ el_pc = "called"
    /\ FinderIdle /\ ValidateIdle /\ ParseIdle /\ OAuthIdle

\* the call of add_event_links_to_suggestions (server.py 255-259)
AddEventLinks ==
    /\ el_pc = "called"
    /\ LET r == add_event_links_to_suggestions(el_suggestions, el_user1, el_user2,
                                               el_base_url)
       IN  /\ el_enhanced' = [i \in 1..Len(r) |-> r[i].output]
           /\ el_suggestions' = [i \in 1..Len(r) |-> r[i].input]
    /\ el_pc' = "returned"
    /\ UNCHANGED <<el_given, el_user1, el_user2, el_base_url, el_prev, el_calls,
                   finder_vars, validate_vars, parse_vars, oauth_vars>>

\* a further request (another render) of the same deployment
NextRequest ==
    /\ el_pc = "returned"
    /\ el_calls < MaxLinkCalls
    /\ el_prev' = [user1 |-> el_user1, user2 |-> el_user2, enhanced |-> el_enhanced]
    /\ el_given' \in SeqsUpTo(LinkSuggestions, MaxLinkSuggestions)
    /\ el_suggestions' = el_given'
    /\ el_user1' \in UserNames /\ el_user2' \in UserNames
    /\ el_enhanced' = <<>>
    /\ el_calls' = el_calls + 1
    /\ el_pc' = "called"
    /\ UNCHANGED <<el_base_url, finder_vars, validate_vars, parse_vars, oauth_vars>>

NextLinks == AddEventLinks \/ NextRequest

SpecLinks == InitLinks /\ [][NextLinks]_vars

\* ---- what the calls handed out: participants, date, time, id, link ----
HandedOut(user1, user2, enhanced) ==
    { [user1 |-> user1, user2 |-> user2, date |-> enhanced[i].date,
       time |-> enhanced[i].time, event_id |-> enhanced[i].event_id,
       event_link |-> enhanced[i].event_link] : i \in 1..Len(enhanced) }
AllHandedOut ==
    (IF el_pc = "returned" THEN HandedOut(el_user1, el_user2, el_enhanced) ELSE {})
    \cup HandedOut(el_prev.user1, el_prev.user2, el_prev.enhanced)

C24_IdsUniqueInResponse ==
    el_pc = "returned" =>
        \A i, j \in 1..Len(el_enhanced) :
            i # j => /\ el_enhanced[i].event_id # el_enhanced[j].event_id
                     /\ el_enhanced[i].event_link # el_enhanced[j].event_link

\* C29: the returned list has the length and order of the input, each
\* element is the input suggestion plus event_id and event_link, the link
\* is base_url + "/calendar/events/create-from-suggestion/" + event_id, and
\* the caller's suggestion objects are as they were given.
C29_LinksAddedToCopies ==
    el_pc = "returned" =>
        /\ Len(el_enhanced) = Len(el_given)
        /\ \A i \in 1..Len(el_given) :
              /\ DOMAIN el_enhanced[i] = DOMAIN el_given[i] \cup {"event_id", "event_link"}
              /\ \A k \in DOMAIN el_given[i] : el_enhanced[i][k] = el_given[i][k]
              /\ el_enhanced[i].event_link =
                    el_base_url \o "/calendar/events/create-from-suggestion/"
                                \o el_enhanced[i].event_id
        /\ el_suggestions = el_given
        /\ \A i \in 1..Len(el_suggestions) :
              DOMAIN el_suggestions[i] \cap {"event_id", "event_link"} = {}

\* two different suggestions were returned with links under a non-empty base_url
C29_Witness ==
    /\ el_pc = "returned"
    /\ Len(el_given) = MaxLinkSuggestions
    /\ el_given[1] # el_given[2]
    /\ el_base_url # ""
    /\ el_enhanced[2].meeting_type = el_given[2].meeting_type
    /\ "event_link" \in DOMAIN el_enhanced[1]

(***************************************************************************)
(*                       OAUTH STATE HANDLING                              *)
(*  src/src/adapters/oauth_service.py (OAuthService) and                   *)
(*  src/src/adapters/oauth_dev_service.py (DevOAuthService): the same      *)
(*  state-store code in both.  Time is in minutes; the database clock      *)
(*  NOW() and utcnow() are the same clock.                                 *)
(***************************************************************************)
\* timedelta(minutes=10), line 134
StateTtlMinutes == 10

\* ---- bounds ----
MaxStates == 2            \* states issued in one run
MaxClockMinutes == 20     \* the clock stops here

\* secrets.token_urlsafe(32) returns a value not seen before; states are
\* numbered in issue order and 0 is a value that was never issued
ForgedState == 0
StateKeys == 0..MaxStates

\* dict / table operations
dict_set(d, k, v) == [x \in DOMAIN d \cup {k} |-> IF x = k THEN v ELSE d[x]]
dict_del(d, k) == [x \in DOMAIN d \ {k} |-> d[x]]

\* _load_states_from_db, lines 63-81: every unexpired row overwrites its key;
\* any exception leaves the dict as it is
load_states_from_db(storage, table, now, db_ok) ==
    IF db_ok
    THEN LET rows == { k \in DOMAIN table : table[k] > now }
         IN  [x \in DOMAIN storage \cup rows |->
                 IF x \in rows THEN table[x] ELSE storage[x]]
    ELSE storage

\* _save_state_to_db, lines 83-104: upsert, failures are only printed
save_state_to_db(table, state, expires_at, db_ok) ==
    IF db_ok THEN dict_set(table, state, expires_at) ELSE table

\* _delete_state_from_db, lines 106-120: failures are only printed
delete_state_from_db(table, state, db_ok) ==
    IF db_ok THEN dict_del(table, state) ELSE table

\* line 185: datetime.utcnow() > expires_at
is_expired(now, expires_at) == now > expires_at

\* a fresh service object on an empty table
InitOAuth ==
    /\ oa_now = 0
    /\ state_storage = <<>>
    /\ oauth_states = <<>>
    /\ oa_issued = <<>>
    /\ oa_accepts = [k \in StateKeys |-> 0]
    /\ oa_consumed = {}
    /\ oa_state = ForgedState /\ oa_was_consumed = FALSE /\ oa_result = "none"
    /\ oa_pc = "run"
    /\ FinderIdle /\ ValidateIdle /\ ParseIdle /\ LinksIdle

\* get_authorization_url, lines 122-170
GetAuthorizationUrl ==
    /\ oa_pc = "run"
    /\ Cardinality(DOMAIN oa_issued) < MaxStates
    /\ \E db_ok \in BOOLEAN :
       LET state == Cardinality(DOMAIN oa_issued) + 1
           expires_at == oa_now + StateTtlMinutes
       IN  /\ state_storage' = dict_set(state_storage, state, expires_at)
           /\ oauth_states' = save_state_to_db(oauth_states, state, expires_at, db_ok)
           /\ oa_issued' = dict_set(oa_issued, state, expires_at)
    /\ oa_result' = "none"
    /\ UNCHANGED <<oa_now, oa_accepts, oa_consumed, oa_state, oa_was_consumed, oa_pc,
                   finder_vars, validate_vars, parse_vars, links_vars>>

\* exchange_code_for_tokens, lines 172-237; fetch_ok: flow.fetch_token
\* returned (it always does in DevOAuthService)
ExchangeCodeForTokens ==
    /\ oa_pc = "run"
    /\ \E state \in StateKeys : \E load_ok, delete_ok, fetch_ok \in BOOLEAN :
       LET loaded == IF state \in DOMAIN state_storage
                     THEN state_storage
                     ELSE load_states_from_db(state_storage, oauth_states, oa_now,
                                              load_ok)
       IN  /\ oa_state' = state
           /\ oa_was_consumed' = (state \in oa_consumed)
           /\ IF state \notin DOMAIN loaded
              THEN /\ oa_result' = "Invalid state parameter"
                   /\ state_storage' = loaded
                   /\ UNCHANGED <<oauth_states, oa_accepts, oa_consumed>>
              ELSE IF is_expired(oa_now, loaded[state])
              THEN /\ oa_result' = "State expired"
                   /\ state_storage' = dict_del(loaded, state)
                   /\ oauth_states' = delete_state_from_db(oauth_states, state, delete_ok)
                   /\ oa_consumed' = oa_consumed \cup {state}
                   /\ UNCHANGED oa_accepts
              ELSE IF ~fetch_ok
              THEN /\ oa_result' = "fetch_token raised"
                   /\ state_storage' = loaded
                   /\ UNCHANGED <<oauth_states, oa_accepts, oa_consumed>>
              ELSE /\ oa_result' = "tokens"
                   /\ state_storage' = dict_del(loaded, state)
                   /\ oauth_states' = delete_state_from_db(oauth_states, state, delete_ok)
                   /\ oa_consumed' = oa_consumed \cup {state}
                   /\ oa_accepts' = [oa_accepts EXCEPT
                                        ![state] = IF @ < MaxStates THEN @ + 1 ELSE @]
    /\ UNCHANGED <<oa_now, oa_issued, oa_pc,
                   finder_vars, validate_vars, parse_vars, links_vars>>

\* __init__, lines 29-37: a new service object (process restart) starts from
\* an empty dict and loads the table
Restart ==
    /\ oa_pc = "run"
    /\ \E load_ok \in BOOLEAN :
          state_storage' = load_states_from_db(<<>>, oauth_states, oa_now, load_ok)
    /\ oa_result' = "none"
    /\ UNCHANGED <<oa_now, oauth_states, oa_issued, oa_accepts, oa_consumed, oa_state,
                   oa_was_consumed, oa_pc,
                   finder_vars, validate_vars, parse_vars, links_vars>>

\* time passes
Tick ==
    /\ oa_pc = "run"
    /\ oa_now + StateTtlMinutes \div 2 <= MaxClockMinutes
    /\ oa_now' = oa_now + StateTtlMinutes \div 2
    /\ oa_result' = "none"
    /\ UNCHANGED <<state_storage, oauth_states, oa_issued, oa_accepts, oa_consumed,
                   oa_state, oa_was_consumed, oa_pc,
                   finder_vars, validate_vars, parse_vars, links_vars>>

NextOAuth == GetAuthorizationUrl \/ ExchangeCodeForTokens \/ Restart \/ Tick

SpecOAuth == InitOAuth /\ [][NextOAuth]_vars

\* C30: a state is accepted only if it was issued and has not expired, and
\* at most once; after a successful exchange or an expiry rejection it is
\* in neither the in-memory store nor the database, and a later exchange
\* with it fails with "Invalid state parameter".
C30_StateSingleUse ==
    /\ oa_result = "tokens" =>
          /\ oa_state \in DOMAIN oa_issued
          /\ oa_now <= oa_issued[oa_state]
    /\ \A k \in StateKeys : oa_accepts[k] <= 1
    /\ \A k \in oa_consumed :
          k \notin DOMAIN state_storage /\ k \notin DOMAIN oauth_states
    /\ (oa_result \notin {"none"} /\ oa_was_consumed) =>
          oa_result = "Invalid state parameter"

====
